---- MODULE Spec2Model ----
(***************************************************************************)
(* Model of the manifest rendering script scripts/render-templates.py and  *)
(* of the database start-up and request handlers of                        *)
(* services/python-service/app.py.                                         *)
(*                                                                         *)
(* File names, template names and service names are sequences of one       *)
(* character strings, so that str.replace and the f-string prefix of       *)
(* render_template are computed, not assumed.  Mapping keys are strings.   *)
(***************************************************************************)
EXTENDS Integers, Sequences, FiniteSets, TLC

VARIABLES
    \* ---- inputs of one run of render-templates.py
    environment,        \* args.environment
    config_state,       \* the file kubernetes/values/<environment>.yaml
    doc,                \* what yaml.safe_load returns for that file
    templates,          \* template names present in kubernetes/templates
    attr_refs,          \* keys a template dereferences through an attribute
    \* ---- state of the run
    pc,                 \* position in main()
    failed_at,          \* position at which the run was aborted
    error,              \* the exception that aborted the run
    exit_code,          \* process exit status, -1 while running
    output_dir_exists,  \* output_dir on the file system
    values,             \* main(): values
    context,            \* main(): context
    disk,               \* files below output_dir: path -> content
    rendered_files,     \* main(): rendered_files
    writes,             \* files opened for writing, in order
    \* ---- services/python-service/app.py
    mode,               \* who calls init_db
    app_pc,             \* position of the service process
    retries,            \* init_db: retries
    delay_sec,          \* init_db: delay_sec
    attempt,            \* init_db: attempt
    outcomes,           \* init_db: what each attempt of the call did
    sleeps,             \* init_db: time.sleep arguments of the call
    result,             \* init_db: return value
    calls,              \* calls of init_db made by the module-level loop
    open_conns,         \* connections opened and not closed
    served,             \* requests handled
    response            \* the last response sent

render_vars ==
    <<environment, config_state, doc, templates, attr_refs, pc, failed_at,
      error, exit_code, output_dir_exists, values, context, disk,
      rendered_files, writes>>

app_vars ==
    <<mode, app_pc, retries, delay_sec, attempt, outcomes, sleeps, result,
      calls, open_conns, served, response>>

vars ==
    <<render_vars, app_vars>>

-----------------------------------------------------------------------------
(* Strings *)

J2Ext ==
    <<".","j","2">>
YamlExt ==
    <<".","y","a","m","l">>
Dash ==
    <<"-">>
PostgresTemplate ==
    <<"p","o","s","t","g","r","e","s","-","s","t","a","t","e","f","u","l","s","e","t",".","j","2">>
DeploymentTemplate ==
    <<"d","e","p","l","o","y","m","e","n","t",".","j","2">>
ServiceTemplate ==
    <<"s","e","r","v","i","c","e",".","j","2">>
IngressTemplate ==
    <<"i","n","g","r","e","s","s",".","j","2">>
KustomizationName ==
    <<"k","u","s","t","o","m","i","z","a","t","i","o","n",".","y","a","m","l">>
Api ==
    <<"a","p","i">>
Worker ==
    <<"w","o","r","k","e","r">>
Stack ==
    <<"s","t","a","c","k">>

Templates ==
    {PostgresTemplate, DeploymentTemplate, ServiceTemplate, IngressTemplate}

Environments ==
    {"dev", "staging", "prod"}

-----------------------------------------------------------------------------
(* Mappings (Python dict) *)

EmptyMap ==
    [k \in {} |-> k]

\* dict.get(k, default)
Get(m, k, default) ==
    IF k \in DOMAIN m THEN m[k] ELSE default

\* {**b, **a}: the first mapping wins
MergeFirstWins(a, b) ==
    [k \in DOMAIN a \cup DOMAIN b |-> IF k \in DOMAIN a THEN a[k] ELSE b[k]]

\* {**a, **b}
Merge(a, b) ==
    [k \in DOMAIN a \cup DOMAIN b |-> IF k \in DOMAIN b THEN b[k] ELSE a[k]]

\* the lambda load_values stores under 'b64encode'
B64Filter ==
    "lambda b64encode"

-----------------------------------------------------------------------------
(* Configuration documents the run may find *)

ServiceIds ==
    {Api, Worker}

Opt(k, vs) ==
    {EmptyMap} \cup {k :> v : v \in vs}

ServiceMappings ==
    {a @@ b @@ c : a \in Opt("service_name", ServiceIds),
                   b \in Opt("image", {"registry/app:1"}),
                   c \in Opt("replicas", {"3"})}

IngressRest ==
    [name |-> "gateway", host |-> "example.local", services |-> "python,nodejs"]

IngressMappings ==
    { IngressRest,
      ("enabled" :> FALSE) @@ IngressRest,
      ("enabled" :> TRUE) @@ IngressRest,
      [enabled |-> TRUE, name |-> "gateway", services |-> "python,nodejs"] }

GlobalKeys ==
    [namespace |-> "microservices", environment |-> "dev", replicas |-> "1"]

PostgresMapping ==
    [storage |-> "1Gi", password |-> "admin123"]

Documents ==
    {GlobalKeys @@ g @@ pg @@ ("python_service" :> p) @@ ("nodejs_service" :> n) @@ ing :
        g \in Opt("service_name", {Stack}),
        pg \in Opt("postgres", {PostgresMapping}),
        p \in ServiceMappings,
        n \in ServiceMappings,
        ing \in Opt("ingress", IngressMappings)}

SampleDocument ==
    GlobalKeys @@ ("postgres" :> PostgresMapping)
        @@ ("python_service" :> [service_name |-> Api])
        @@ ("nodejs_service" :> [service_name |-> Worker])

-----------------------------------------------------------------------------
(* render_template *)

\* the keys each template dereferences
TemplateRefs(template_name) ==
    CASE template_name = PostgresTemplate ->
            {"namespace", "environment", "postgres"}
      [] template_name = DeploymentTemplate ->
            {"namespace", "environment", "service_name", "image", "replicas"}
      [] template_name = ServiceTemplate ->
            {"namespace", "service_name"}
      [] template_name = IngressTemplate ->
            {"namespace", "ingress_name", "ingress_host", "services"}

\* str.replace(old, new): every occurrence, left to right
RECURSIVE Replace(_, _, _)
Replace(s, old, new) ==
    IF Len(s) < Len(old) THEN s
    ELSE IF SubSeq(s, 1, Len(old)) = old
         THEN new \o Replace(SubSeq(s, Len(old) + 1, Len(s)), old, new)
         ELSE <<Head(s)>> \o Replace(Tail(s), old, new)

\* the name without the service prefix of lines 36-37
OutputNameUnprefixed(template_name, ctx) ==
    Replace(template_name, J2Ext, YamlExt)

\* lines 35-37
OutputName(template_name, ctx) ==
    LET output_name == Replace(template_name, J2Ext, YamlExt)
    IN  IF "service_name" \in DOMAIN ctx
        THEN ctx["service_name"] \o Dash \o output_name
        ELSE output_name

\* Path(args.output_dir) / args.environment
OutputDir ==
    <<"kubernetes/rendered", environment>>

\* output_dir / output_name
OutputPath(output_name) ==
    <<OutputDir, output_name>>

\* Path.name
PathName(p) ==
    p[2]

\* template.render(**context) under the Environment of lines 67-72, whose
\* undefined type is jinja2's default: a missing name prints as the empty
\* string, an attribute of a missing name raises UndefinedError
RenderRaises(template_name, ctx) ==
    (TemplateRefs(template_name) \ DOMAIN ctx) \cap attr_refs # {}

Rendered(template_name, ctx) ==
    [template |-> template_name,
     by       |-> pc,
     text     |-> [k \in TemplateRefs(template_name) \cap DOMAIN ctx |-> ctx[k]],
     empties  |-> TemplateRefs(template_name) \ DOMAIN ctx]

WriteFile(path, content) ==
    [p \in DOMAIN disk \cup {path} |-> IF p = path THEN content ELSE disk[p]]

\* an uncaught exception, or sys.exit(1)
Raise(e) ==
    /\ pc' = "failed"
    /\ failed_at' = pc
    /\ error' = e
    /\ exit_code' = 1

\* render_template with a failed open() reported and passed over
render_template_lenient(template_name, ctx, next) ==
    /\ context' = ctx
    /\ IF template_name \notin templates
       THEN /\ Raise("TemplateNotFound")
            /\ UNCHANGED <<disk, rendered_files, writes>>
       ELSE IF RenderRaises(template_name, ctx)
       THEN /\ Raise("UndefinedError")
            /\ UNCHANGED <<disk, rendered_files, writes>>
       ELSE \E opened \in BOOLEAN :
            LET output_path == OutputPath(OutputName(template_name, ctx))
            IN  /\ rendered_files' = Append(rendered_files, output_path)
                /\ pc' = next
                /\ UNCHANGED <<failed_at, error, exit_code>>
                /\ IF opened
                   THEN /\ disk' = WriteFile(output_path, Rendered(template_name, ctx))
                        /\ writes' = Append(writes,
                               [template |-> template_name, path |-> output_path])
                   ELSE UNCHANGED <<disk, writes>>

\* lines 29-45
render_template(template_name, ctx, next) ==
    /\ context' = ctx
    /\ IF template_name \notin templates
       THEN /\ Raise("TemplateNotFound")
            /\ UNCHANGED <<disk, rendered_files, writes>>
       ELSE IF RenderRaises(template_name, ctx)
       THEN /\ Raise("UndefinedError")
            /\ UNCHANGED <<disk, rendered_files, writes>>
       ELSE \E opened \in BOOLEAN :
            LET output_path == OutputPath(OutputName(template_name, ctx))
            IN  IF opened
                THEN /\ disk' = WriteFile(output_path, Rendered(template_name, ctx))
                     /\ writes' = Append(writes,
                            [template |-> template_name, path |-> output_path])
                     /\ rendered_files' = Append(rendered_files, output_path)
                     /\ pc' = next
                     /\ UNCHANGED <<failed_at, error, exit_code>>
                ELSE /\ Raise("OSError")
                     /\ UNCHANGED <<disk, rendered_files, writes>>

-----------------------------------------------------------------------------
(* main *)

Inputs ==
    <<environment, config_state, doc, templates, attr_refs>>

\* lines 58-59
MakeOutputDir ==
    /\ UNCHANGED app_vars
    /\ pc = "mkdir"
    /\ output_dir_exists' = TRUE
    /\ pc' = "load"
    /\ UNCHANGED <<Inputs, failed_at, error, exit_code, values, context, disk,
                   rendered_files, writes>>

\* what load_values returns
LoadedValues(d) ==
    ("b64encode" :> B64Filter) @@ d

\* line 63
load_values ==
    /\ UNCHANGED app_vars
    /\ pc = "load"
    /\ IF config_state = "missing"
       THEN Raise("ValuesFileNotFound") /\ UNCHANGED values
       ELSE IF config_state = "malformed"
       THEN Raise("YAMLError") /\ UNCHANGED values
       ELSE /\ values' = LoadedValues(doc)
            /\ pc' = "postgres"
            /\ UNCHANGED <<failed_at, error, exit_code>>
    /\ UNCHANGED <<Inputs, output_dir_exists, context, disk, rendered_files,
                   writes>>

\* lines 83-87
PostgresContext(v) ==
    [namespace   |-> v["namespace"],
     environment |-> v["environment"],
     postgres    |-> v["postgres"]]

\* lines 82-88
RenderPostgres ==
    /\ UNCHANGED app_vars
    /\ pc = "postgres"
    /\ IF {"namespace", "environment", "postgres"} \subseteq DOMAIN values
       THEN render_template(PostgresTemplate, PostgresContext(values), "py_deploy")
       ELSE Raise("KeyError") /\ UNCHANGED <<context, disk, rendered_files, writes>>
    /\ UNCHANGED <<Inputs, output_dir_exists, values>>

\* lines 92 and 98
ServiceContext(v, service_key) ==
    Merge(v, v[service_key])

RenderDeployment(service_key, next) ==
    /\ UNCHANGED app_vars
    /\ IF service_key \in DOMAIN values
       THEN render_template(DeploymentTemplate,
                            ServiceContext(values, service_key), next)
       ELSE Raise("KeyError") /\ UNCHANGED <<context, disk, rendered_files, writes>>
    /\ UNCHANGED <<Inputs, output_dir_exists, values>>

RenderService(next) ==
    /\ UNCHANGED app_vars
    /\ render_template(ServiceTemplate, context, next)
    /\ UNCHANGED <<Inputs, output_dir_exists, values>>

\* lines 92-93
RenderPythonDeployment ==
    /\ pc = "py_deploy"
    /\ RenderDeployment("python_service", "py_service")

\* line 94
RenderPythonService ==
    /\ pc = "py_service"
    /\ RenderService("node_deploy")

\* lines 98-99
RenderNodeDeployment ==
    /\ pc = "node_deploy"
    /\ RenderDeployment("nodejs_service", "node_service")

\* line 100
RenderNodeService ==
    /\ pc = "node_service"
    /\ RenderService("ingress")

\* .get('enabled', True)
IngressEnabledByDefault(v) ==
    Get(Get(v, "ingress", EmptyMap), "enabled", TRUE)

\* line 103
IngressEnabled(v) ==
    Get(Get(v, "ingress", EmptyMap), "enabled", FALSE)

\* lines 105-111
IngressContext(v) ==
    [namespace    |-> v["namespace"],
     environment  |-> v["environment"],
     ingress_name |-> v["ingress"]["name"],
     ingress_host |-> v["ingress"]["host"],
     services     |-> v["ingress"]["services"]]

\* lines 103-112
RenderIngress ==
    /\ UNCHANGED app_vars
    /\ pc = "ingress"
    /\ IF IngressEnabled(values)
       THEN IF /\ "ingress" \in DOMAIN values
               /\ {"name", "host", "services"} \subseteq DOMAIN values["ingress"]
            THEN render_template(IngressTemplate, IngressContext(values),
                                 "kustomization")
            ELSE Raise("KeyError")
                 /\ UNCHANGED <<context, disk, rendered_files, writes>>
       ELSE /\ pc' = "kustomization"
            /\ UNCHANGED <<failed_at, error, exit_code, context, disk,
                           rendered_files, writes>>
    /\ UNCHANGED <<Inputs, output_dir_exists, values>>

RECURSIVE Distinct(_)
Distinct(s) ==
    IF s = <<>> THEN <<>>
    ELSE LET r == Distinct(SubSeq(s, 1, Len(s) - 1))
         IN  IF \E i \in DOMAIN r : r[i] = s[Len(s)]
             THEN r
             ELSE Append(r, s[Len(s)])

\* the names with repetitions dropped
ResourcesDistinct(files) ==
    Distinct([i \in DOMAIN files |-> PathName(files[i])])

\* line 120
Resources(files) ==
    [i \in DOMAIN files |-> PathName(files[i])]

\* lines 117-121
Kustomization(files) ==
    [apiVersion |-> "kustomize.config.k8s.io/v1beta1",
     kind       |-> "Kustomization",
     resources  |-> Resources(files)]

KustomizationPath ==
    OutputPath(KustomizationName)

\* lines 117-125
WriteKustomization ==
    /\ UNCHANGED app_vars
    /\ pc = "kustomization"
    /\ \E opened \in BOOLEAN :
         IF opened
         THEN /\ disk' = WriteFile(KustomizationPath, Kustomization(rendered_files))
              /\ writes' = Append(writes,
                     [template |-> <<>>, path |-> KustomizationPath])
              /\ pc' = "done"
              /\ exit_code' = 0
              /\ UNCHANGED <<failed_at, error>>
         ELSE Raise("OSError") /\ UNCHANGED <<disk, writes>>
    /\ UNCHANGED <<Inputs, output_dir_exists, values, context, rendered_files>>

-----------------------------------------------------------------------------
(* services/python-service/app.py *)

\* line 184
ModuleRetries ==
    8
ModuleDelay ==
    3
\* line 40
DefaultDelay ==
    2

MaxRetries ==
    3
MaxDelay ==
    2
MaxCalls ==
    2
MaxRequests ==
    2

\* What the database does to one use of it: get_db_connection returns None
\* ("no_conn"), a statement or the commit raises ("raised"), or all succeed
Outcomes ==
    {"ok", "no_conn", "raised"}

\* a sleep after the last attempt too
SleepAfterEvery(sl, att, r, d) ==
    IF att <= r THEN Append(sl, d * att) ELSE sl

\* lines 73-76
SleepAfter(sl, att, r, d) ==
    IF att < r THEN Append(sl, d * att) ELSE sl

\* connections left open by one attempt of init_db: lines 62 and 68 close
InitDbLeaves(o) ==
    0

\* connections left open by one request: health lines 97-102, get_data
\* lines 130-146, get_stats lines 161-171 close only when nothing raised
HandlerLeaves(o) ==
    IF o = "raised" THEN 1 ELSE 0

NoResponse ==
    [handler |-> "none", status |-> 0, database |-> ""]

RenderUntouched ==
    UNCHANGED render_vars

\* one iteration of the loop of init_db, lines 45-76
InitDbAttempt ==
    /\ app_pc = "init_db"
    /\ attempt < retries
    /\ \E o \in Outcomes :
        /\ attempt' = attempt + 1
        /\ outcomes' = Append(outcomes, o)
        /\ open_conns' = open_conns + InitDbLeaves(o)
        /\ IF o = "ok"
           THEN /\ result' = "True"
                /\ app_pc' = "returned"
                /\ UNCHANGED sleeps
           ELSE /\ sleeps' = SleepAfter(sleeps, attempt', retries, delay_sec)
                /\ UNCHANGED <<result, app_pc>>
    /\ UNCHANGED <<mode, retries, delay_sec, calls, served, response>>
    /\ RenderUntouched

\* the loop of init_db is over, lines 77-78
InitDbExhausted ==
    /\ app_pc = "init_db"
    /\ attempt >= retries
    /\ result' = "False"
    /\ app_pc' = "returned"
    /\ UNCHANGED <<mode, retries, delay_sec, attempt, outcomes, sleeps, calls,
                   open_conns, served, response>>
    /\ RenderUntouched

\* lines 184-186: init_db returned False, sleep 5 seconds and call it again
ModuleRetry ==
    /\ mode = "module"
    /\ app_pc = "returned"
    /\ result = "False"
    /\ calls < MaxCalls
    /\ calls' = calls + 1
    /\ attempt' = 0
    /\ outcomes' = <<>>
    /\ sleeps' = <<>>
    /\ result' = "none"
    /\ app_pc' = "init_db"
    /\ UNCHANGED <<mode, retries, delay_sec, open_conns, served, response>>
    /\ RenderUntouched

\* line 184: init_db returned True, the module is loaded and requests arrive
StartServing ==
    /\ mode = "module"
    /\ app_pc = "returned"
    /\ result = "True"
    /\ app_pc' = "serving"
    /\ UNCHANGED <<mode, retries, delay_sec, attempt, outcomes, sleeps, result,
                   calls, open_conns, served, response>>
    /\ RenderUntouched

\* a request handler: what it leaves open and what it answers
Handle(handler, o, status, database) ==
    /\ served < MaxRequests
    /\ served' = served + 1
    /\ open_conns' = open_conns + HandlerLeaves(o)
    /\ response' = [handler |-> handler, status |-> status, database |-> database]
    /\ UNCHANGED <<mode, app_pc, retries, delay_sec, attempt, outcomes, sleeps,
                   result, calls>>
    /\ RenderUntouched

\* lines 82-114
health ==
    /\ app_pc = "serving"
    /\ \E o \in Outcomes :
        Handle("health", o, 200,
               CASE o = "ok" -> "connected"
                 [] o = "raised" -> "error"
                 [] o = "no_conn" -> "disconnected")

\* lines 118-146
get_data ==
    /\ app_pc = "serving"
    /\ \E o \in Outcomes :
        Handle("get_data", o, IF o = "ok" THEN 200 ELSE 500, "")

\* lines 149-171
get_stats ==
    /\ app_pc = "serving"
    /\ \E o \in Outcomes :
        Handle("get_stats", o, IF o = "ok" THEN 200 ELSE 500, "")

-----------------------------------------------------------------------------
(* Specifications *)

AppIdle ==
    /\ mode = "off"
    /\ app_pc = "off"
    /\ retries = 0
    /\ delay_sec = 0
    /\ attempt = 0
    /\ outcomes = <<>>
    /\ sleeps = <<>>
    /\ result = "none"
    /\ calls = 0
    /\ open_conns = 0
    /\ served = 0
    /\ response = NoResponse

RenderInit ==
    /\ environment \in Environments
    /\ config_state \in {"missing", "malformed", "present"}
    /\ doc \in IF config_state = "present" THEN Documents ELSE {SampleDocument}
    /\ templates \in {Templates} \cup {Templates \ {t} : t \in Templates}
    /\ attr_refs \in {{}, {"image"}}
    /\ pc = "mkdir"
    /\ failed_at = "none"
    /\ error = "none"
    /\ exit_code = -1
    /\ output_dir_exists = FALSE
    /\ values = EmptyMap
    /\ context = EmptyMap
    /\ disk = EmptyMap
    /\ rendered_files = <<>>
    /\ writes = <<>>

RenderIdle ==
    /\ environment = "dev"
    /\ config_state = "missing"
    /\ doc = SampleDocument
    /\ templates = Templates
    /\ attr_refs = {}
    /\ pc = "off"
    /\ failed_at = "none"
    /\ error = "none"
    /\ exit_code = -1
    /\ output_dir_exists = FALSE
    /\ values = EmptyMap
    /\ context = EmptyMap
    /\ disk = EmptyMap
    /\ rendered_files = <<>>
    /\ writes = <<>>

AppInit ==
    /\ mode \in {"module", "direct"}
    /\ IF mode = "module"
       THEN retries = ModuleRetries /\ delay_sec = ModuleDelay
       ELSE retries \in 0..MaxRetries /\ delay_sec \in (0..MaxDelay) \cup {DefaultDelay}
    /\ app_pc = "init_db"
    /\ attempt = 0
    /\ outcomes = <<>>
    /\ sleeps = <<>>
    /\ result = "none"
    /\ calls = 1
    /\ open_conns = 0
    /\ served = 0
    /\ response = NoResponse

Init ==
    RenderInit /\ AppIdle

Next ==
    \/ MakeOutputDir
    \/ load_values
    \/ RenderPostgres
    \/ RenderPythonDeployment
    \/ RenderPythonService
    \/ RenderNodeDeployment
    \/ RenderNodeService
    \/ RenderIngress
    \/ WriteKustomization

Spec ==
    Init /\ [][Next]_vars

InitApp ==
    RenderIdle /\ AppInit

NextApp ==
    \/ InitDbAttempt
    \/ InitDbExhausted
    \/ ModuleRetry
    \/ StartServing
    \/ health
    \/ get_data
    \/ get_stats

SpecApp ==
    InitApp /\ [][NextApp]_vars

-----------------------------------------------------------------------------
(* Vocabulary of the properties *)

PostgresYaml ==
    <<"p","o","s","t","g","r","e","s","-","s","t","a","t","e","f","u","l","s","e","t",".","y","a","m","l">>
DeploymentYaml ==
    <<"d","e","p","l","o","y","m","e","n","t",".","y","a","m","l">>
ServiceYaml ==
    <<"s","e","r","v","i","c","e",".","y","a","m","l">>
IngressYaml ==
    <<"i","n","g","r","e","s","s",".","y","a","m","l">>
ApiDeploymentYaml ==
    <<"a","p","i","-","d","e","p","l","o","y","m","e","n","t",".","y","a","m","l">>
ApiServiceYaml ==
    <<"a","p","i","-","s","e","r","v","i","c","e",".","y","a","m","l">>
WorkerDeploymentYaml ==
    <<"w","o","r","k","e","r","-","d","e","p","l","o","y","m","e","n","t",".","y","a","m","l">>
WorkerServiceYaml ==
    <<"w","o","r","k","e","r","-","s","e","r","v","i","c","e",".","y","a","m","l">>

\* the artifact name a template is expected to give, without prefix
YamlNameOf(template_name) ==
    CASE template_name = PostgresTemplate -> PostgresYaml
      [] template_name = DeploymentTemplate -> DeploymentYaml
      [] template_name = ServiceTemplate -> ServiceYaml
      [] template_name = IngressTemplate -> IngressYaml

ServiceKeys ==
    <<"python_service", "nodejs_service">>

ServiceCount ==
    Len(ServiceKeys)

Position(p) ==
    CASE p = "mkdir" -> 0
      [] p = "load" -> 1
      [] p = "postgres" -> 2
      [] p = "py_deploy" -> 3
      [] p = "py_service" -> 4
      [] p = "node_deploy" -> 5
      [] p = "node_service" -> 6
      [] p = "ingress" -> 7
      [] p = "kustomization" -> 8
      [] p = "done" -> 9
      [] OTHER -> -1

\* the run has completed step p
Passed(p) ==
    IF pc = "failed" THEN Position(failed_at) > Position(p)
    ELSE Position(pc) > Position(p)

\* the run was aborted in step p
FailedAt(p) ==
    pc = "failed" /\ failed_at = p

\* the document has a routing sub-mapping whose enabled flag is present and true
RoutingEnabled ==
    /\ "ingress" \in DOMAIN doc
    /\ "enabled" \in DOMAIN doc["ingress"]
    /\ doc["ingress"]["enabled"] = TRUE

\* the templates of the render units, in declared order
ExpectedTemplates ==
    <<PostgresTemplate, DeploymentTemplate, ServiceTemplate,
      DeploymentTemplate, ServiceTemplate>>
    \o (IF RoutingEnabled THEN <<IngressTemplate>> ELSE <<>>)

\* the service whose unit is the i-th of the run
ServiceOfUnit(i) ==
    IF i \in {2, 3} THEN "python_service" ELSE "nodejs_service"

StartsWith(s, prefix) ==
    Len(s) >= Len(prefix) /\ SubSeq(s, 1, Len(prefix)) = prefix

AggregatorWritten ==
    KustomizationPath \in DOMAIN disk

ListedResources ==
    disk[KustomizationPath].resources

-----------------------------------------------------------------------------
(* Properties of render-templates.py *)

\* C1: no two render units of one run are written to the same output file,
\* and the names listed by a completed run are pairwise distinct.
C1_NoOutputCollision ==
    /\ \A i, j \in DOMAIN writes : i # j => writes[i].path # writes[j].path
    /\ pc = "done" =>
         \A i, j \in DOMAIN rendered_files :
            i # j => PathName(rendered_files[i]) # PathName(rendered_files[j])

\* C2: a run ended because the values file does not exist has not created
\* the output directory.
C2_NoDirBeforeConfigNotFound ==
    error = "ValuesFileNotFound" => ~output_dir_exists

\* C3: a service unit whose context lacks a key of the deployment template
\* aborts the run in that unit with an undefined-reference error, and nothing
\* is written for that unit or after it (the file system accepting every
\* write).
C3_MissingKeyIsFatal ==
    \A u \in {<<"py_deploy", "python_service", 1>>,
              <<"node_deploy", "nodejs_service", 3>>} :
        ( /\ Passed(u[1]) \/ FailedAt(u[1])
          /\ error # "OSError"
          /\ u[2] \in DOMAIN values
          /\ DeploymentTemplate \in templates
          /\ ~(TemplateRefs(DeploymentTemplate)
                  \subseteq DOMAIN values \cup DOMAIN values[u[2]]) )
        => /\ FailedAt(u[1])
           /\ error = "UndefinedError"
           /\ Len(writes) = u[3]
           /\ ~AggregatorWritten

\* C4: a completed run has written one aggregator document that lists
\* 1 + 2*serviceCount + (1 if routing is enabled) names: the names of the
\* files written, in the order written, which is the shared resource, each
\* service's deployment then service in declared order, then routing.
C4_AggregatorListsProduction ==
    pc = "done" =>
        /\ AggregatorWritten
        /\ Cardinality({i \in DOMAIN writes : writes[i].path = KustomizationPath}) = 1
        /\ Len(ListedResources) =
              1 + 2 * ServiceCount + (IF RoutingEnabled THEN 1 ELSE 0)
        /\ Len(writes) = Len(ListedResources) + 1
        /\ \A i \in DOMAIN ListedResources :
              /\ ListedResources[i] = PathName(writes[i].path)
              /\ writes[i].template = ExpectedTemplates[i]
              /\ ( /\ i \in 2..5
                   /\ "service_name" \in DOMAIN doc[ServiceOfUnit(i)] )
                 => StartsWith(ListedResources[i],
                               doc[ServiceOfUnit(i)]["service_name"] \o Dash)

C4_Witness ==
    /\ pc = "done"
    /\ RoutingEnabled
    /\ Len(ListedResources) = 6
    /\ ListedResources[2] = ListedResources[4]

\* C5: the aggregator document is written once, as the last write of the
\* run and after every render unit was written; an aborted run has none; and
\* every file the aggregator lists exists.
C5_AggregatorLast ==
    /\ \A i \in DOMAIN writes :
          writes[i].path = KustomizationPath =>
             /\ i = Len(writes)
             /\ pc = "done"
             /\ [j \in 1..(i - 1) |-> writes[j].template] = ExpectedTemplates
             /\ \A j \in 1..(i - 1) : writes[j].path \in DOMAIN disk
    /\ pc = "failed" => ~AggregatorWritten
    /\ AggregatorWritten =>
          /\ pc = "done"
          /\ \A i \in DOMAIN ListedResources :
                OutputPath(ListedResources[i]) \in DOMAIN disk

C5_Witness ==
    /\ AggregatorWritten
    /\ Len(writes) = 7
    /\ writes[7].path = KustomizationPath

\* C6: the routing unit is rendered and written exactly when routing is
\* enabled; disabled or absent routing is no error, leaves no routing file
\* and no routing entry in the aggregator.
C6_RoutingIffEnabled ==
    /\ (\E i \in DOMAIN writes : writes[i].template = IngressTemplate)
          => RoutingEnabled
    /\ FailedAt("ingress") => RoutingEnabled
    /\ Passed("ingress") =>
          (OutputPath(IngressYaml) \in DOMAIN disk <=> RoutingEnabled)
    /\ pc = "done" =>
          ((\E i \in DOMAIN ListedResources : ListedResources[i] = IngressYaml)
              <=> RoutingEnabled)

C6_Witness ==
    /\ pc = "done"
    /\ "ingress" \in DOMAIN doc
    /\ "enabled" \notin DOMAIN doc["ingress"]
    /\ OutputPath(IngressYaml) \notin DOMAIN disk

ServiceNameOf(service_key) ==
    IF "service_name" \in DOMAIN doc[service_key]
    THEN <<doc[service_key]["service_name"]>>
    ELSE IF "service_name" \in DOMAIN doc
    THEN <<doc["service_name"]>>
    ELSE <<>>

IsServiceContext(service_key) ==
    /\ DOMAIN context = DOMAIN values \cup DOMAIN doc[service_key]
    /\ \A k \in DOMAIN context :
          IF k \in DOMAIN doc[service_key]
          THEN context[k] = doc[service_key][k]
          ELSE context[k] = values[k]

\* C8: the shared-resource context has exactly the keys namespace,
\* environment and postgres; a service context is the value tree merged with
\* the service's sub-mapping, the service's value winning; the value tree is
\* never changed, and the second service's context has no key of the first
\* service's sub-mapping that the tree or its own sub-mapping does not have.
C8_ContextComposition ==
    /\ Passed("load") =>
          /\ DOMAIN values = DOMAIN doc \cup {"b64encode"}
          /\ \A k \in DOMAIN doc : values[k] = doc[k]
    /\ pc = "py_deploy" =>
          /\ DOMAIN context = {"namespace", "environment", "postgres"}
          /\ \A k \in DOMAIN context : context[k] = doc[k]
    /\ pc \in {"py_service", "node_deploy"} => IsServiceContext("python_service")
    /\ pc \in {"node_service", "ingress"} =>
          /\ IsServiceContext("nodejs_service")
          /\ \A k \in DOMAIN doc["python_service"] :
                k \notin DOMAIN doc["nodejs_service"] \cup DOMAIN values
                   => k \notin DOMAIN context

C8_Witness ==
    /\ pc = "ingress"
    /\ "service_name" \in DOMAIN doc
    /\ "replicas" \in DOMAIN doc["nodejs_service"]
    /\ "image" \in DOMAIN doc["python_service"]
    /\ "image" \notin DOMAIN doc["nodejs_service"]
    /\ context["replicas"] = "3"
    /\ "image" \notin DOMAIN context

-----------------------------------------------------------------------------
(* Properties of app.py *)

\* the attempts of the current call that failed
FailedAttempts ==
    {k \in 1..attempt : outcomes[k] # "ok"}

\* C9: one call of init_db makes at most retries attempts; it returns True
\* at the first successful attempt and makes no attempt after it; it returns
\* False exactly when retries attempts were made and all failed; after the
\* failed attempt k < retries it sleeps delay_sec*k, and it does not sleep
\* after the last one.
C9_InitDbBounded ==
    app_pc # "off" =>
        /\ attempt <= retries
        /\ Len(outcomes) = attempt
        /\ \A k \in 1..(attempt - 1) : outcomes[k] # "ok"
        /\ result = "True" <=> (attempt >= 1 /\ outcomes[attempt] = "ok")
        /\ result = "False" =>
              attempt = retries /\ FailedAttempts = 1..retries
        /\ (app_pc # "init_db" /\ FailedAttempts = 1..retries)
              => result = "False"
        /\ app_pc = "init_db" => result = "none"
        /\ LET waits == Cardinality({k \in FailedAttempts : k < retries})
           IN  sleeps = [k \in 1..waits |-> delay_sec * k]

C9_Witness ==
    /\ result = "False"
    /\ retries = 3
    /\ delay_sec = 2
    /\ sleeps = <<2, 4>>
    /\ outcomes = <<"no_conn", "raised", "raised">>

\* C10: no function returns with a connection it opened still open.
C10_ConnectionsClosed ==
    open_conns = 0

====
